---- MODULE Spec2Model ----
(***************************************************************************)
(* A model of package access (src/access.go): API access grants kept in   *)
(* two bolt buckets (__apiAccess, __apiPending), the JWT issued by         *)
(* setToken, and the token checks IsGranted / IsOwner.                     *)
(*                                                                         *)
(* Callers are concurrent workers.  Every bolt transaction (db.Update /    *)
(* db.View) is one atomic step; the code of a call that runs before its    *)
(* first transaction touches only the call's own locals and response       *)
(* writer and is one step of its own.                                      *)
(***************************************************************************)
EXTENDS Integers, Sequences, FiniteSets, TLC

\* ------------------------------------------------------------------ bounds

\* number of distinct salts user.New can draw
NumSalts == 2
\* the clock runs over 0..MaxTime, in ticks
MaxTime == 5
\* clock ticks in a second: time.Time is finer than the seconds of Unix()
TicksPerSecond == 2

Procs == {"w1", "w2"}
Keys == {"", "a"}
Passwords == {"", "x", "y"}
Salts == 1..NumSalts

Nil == "nil"

\* ----------------------------------------------------------- bolt buckets
\* A bucket is a function from the keys it holds to their values.

\* b.Get(k) != nil
Has(b, k) == k \in DOMAIN b

Put(b, k, v) == [x \in (DOMAIN b) \cup {k} |-> IF x = k THEN v ELSE b[x]]

Delete(b, k) == [x \in (DOMAIN b) \ {k} |-> b[x]]

EmptyBucket == [x \in {} |-> Nil]

\* ------------------------------------------------- user (ponzu admin/user)

\* the zero values of a hash and a salt string
NoHash == [password |-> "", salt |-> -1]
NoSalt == 0

\* bcrypt over the password followed by the salt
HashPassword(password, salt) == [password |-> password, salt |-> salt]

\* user.New(key, password): a fresh salt and the hash made with it, or an error
UserNew(key, password) ==
    {[err |-> "ErrUserNew", Email |-> "", Hash |-> NoHash, Salt |-> NoSalt]}
    \cup {[err |-> Nil, Email |-> key, Hash |-> HashPassword(password, s), Salt |-> s]
             : s \in Salts}

NoUser == [err |-> Nil, Email |-> "", Hash |-> NoHash, Salt |-> NoSalt]

\* user.IsUser(usr, password): the password hashes to usr.Hash under usr.Salt
IsUser(usr, password) == usr.Hash = HashPassword(password, usr.Salt)

\* json.Marshal(u) of a user.User: fields id, email, hash, salt
MarshalUser(usr) ==
    [id |-> 0, email |-> usr.Email, hash |-> usr.Hash, salt |-> usr.Salt]

JSONField(j, name, zero) == IF name \in DOMAIN j THEN j[name] ELSE zero

\* json.Unmarshal(j, &apiAccess): fields key, hash, salt, token of APIAccess
UnmarshalAPIAccess(j) ==
    [Key   |-> JSONField(j, "key", ""),
     Hash  |-> JSONField(j, "hash", NoHash),
     Salt  |-> JSONField(j, "salt", NoSalt),
     Token |-> JSONField(j, "token", <<>>)]

\* ------------------------------------------------------------------- time

\* (time.Time).Unix(): the whole seconds of a time given in ticks
Unix(t) == t \div TicksPerSecond

\* ------------------------------------------------------------------ Config

HeaderStore == "http.Header"
CookieStore == "http.Cookie"
OtherStore  == "other"
TokenStores == {HeaderStore, CookieStore, OtherStore}

\* claim values: a string, a number, or a value encoding/json cannot encode
Str(s) == [t |-> "string", s |-> s, n |-> 0]
Num(n) == [t |-> "number", s |-> "", n |-> n]
Unencodable == [t |-> "chan", s |-> "", n |-> 0]

NoClaims == [x \in {} |-> Unencodable]

\* the CustomClaims maps callers pass
CustomClaimSets ==
    {NoClaims,
     [x \in {"exp"} |-> Num(123)],
     [x \in {"access"} |-> Str("x")],
     [x \in {"ch"} |-> Unencodable]}

\* the token lifetime callers configure, in ticks
Lifetime == 2

Configs ==
    [ExpireAfter : {Lifetime}, TokenStore : TokenStores,
     CustomClaims : CustomClaimSets, SecureCookie : {FALSE}]

NoConfig ==
    [ExpireAfter |-> 0, TokenStore |-> OtherStore,
     CustomClaims |-> NoClaims, SecureCookie |-> FALSE]

\* ------------------------------------------------------------------ tokens
\* A string that may hold a token is a sequence of pieces: the text
\* "Bearer ", an encoded JWT, or other text.

apiAccessCookie == "_apiAccessToken"

BearerPrefix == <<[kind |-> "Bearer ", signed |-> FALSE, claims |-> NoClaims]>>

Jwt(signed, claims) == <<[kind |-> "jwt", signed |-> signed, claims |-> claims]>>

\* the response writer of a call: Authorization header values and cookies set
EmptyResponse == [Authorization |-> <<>>, Cookies |-> <<>>]

\* jwt.New(claims): a signed token over the claims, or an error when a claim
\* value cannot be encoded
JwtNew(claims) ==
    IF \E k \in DOMAIN claims : claims[k].t = "chan"
    THEN [err |-> "ErrJwt", token |-> <<>>]
    ELSE [err |-> Nil, token |-> Jwt(TRUE, claims)]

\* the claims map after the loop over cfg.CustomClaims has stored every entry
MergeClaims(claims, custom) ==
    [k \in (DOMAIN claims) \cup (DOMAIN custom) |->
        IF k \in DOMAIN custom THEN custom[k] ELSE claims[k]]

\* setToken without the test for a custom claim named like an internal one
SetTokenNoCollisionTest(a_Key, cfg, t, w) ==
    LET exp    == t + cfg.ExpireAfter
        claims == [k \in {"exp", "access"} |->
                      IF k = "exp" THEN Num(Unix(exp)) ELSE Str(a_Key)]
        j      == JwtNew(MergeClaims(claims, cfg.CustomClaims))
    IN  IF j.err # Nil
        THEN [err |-> j.err, Token |-> <<>>, w |-> w]
        ELSE CASE cfg.TokenStore = HeaderStore ->
                    [err |-> Nil, Token |-> j.token,
                     w |-> [w EXCEPT !.Authorization =
                               Append(@, BearerPrefix \o j.token)]]
               [] cfg.TokenStore = CookieStore ->
                    [err |-> Nil, Token |-> j.token,
                     w |-> [w EXCEPT !.Cookies =
                               Append(@, [Name |-> apiAccessCookie,
                                          Value |-> j.token,
                                          Expires |-> exp,
                                          Secure |-> cfg.SecureCookie])]]
               [] OTHER ->
                    [err |-> "ErrTokenStore", Token |-> j.token, w |-> w]

\* setToken taking the time of the call for the expiration
SetTokenExpiresNow(a_Key, cfg, t, w) ==
    LET exp    == t
        claims == [k \in {"exp", "access"} |->
                      IF k = "exp" THEN Num(Unix(exp)) ELSE Str(a_Key)]
    IN  IF \E k \in DOMAIN cfg.CustomClaims : k \in DOMAIN claims
        THEN [err |-> "ErrClaimCollision", Token |-> <<>>, w |-> w]
        ELSE LET j == JwtNew(MergeClaims(claims, cfg.CustomClaims))
             IN  IF j.err # Nil
                 THEN [err |-> j.err, Token |-> <<>>, w |-> w]
                 ELSE CASE cfg.TokenStore = HeaderStore ->
                             [err |-> Nil, Token |-> j.token,
                              w |-> [w EXCEPT !.Authorization =
                                        Append(@, BearerPrefix \o j.token)]]
                        [] cfg.TokenStore = CookieStore ->
                             [err |-> Nil, Token |-> j.token,
                              w |-> [w EXCEPT !.Cookies =
                                        Append(@, [Name |-> apiAccessCookie,
                                                   Value |-> j.token,
                                                   Expires |-> exp,
                                                   Secure |-> cfg.SecureCookie])]]
                        [] OTHER ->
                             [err |-> "ErrTokenStore", Token |-> j.token, w |-> w]

\* (a *APIAccess).setToken(cfg) at time t, writing to response w:
\* the error, a.Token and the response afterwards
SetToken(a_Key, cfg, t, w) ==
    LET exp    == t + cfg.ExpireAfter
        claims == [k \in {"exp", "access"} |->
                      IF k = "exp" THEN Num(Unix(exp)) ELSE Str(a_Key)]
    IN  IF \E k \in DOMAIN cfg.CustomClaims : k \in DOMAIN claims
        THEN [err |-> "ErrClaimCollision", Token |-> <<>>, w |-> w]
        ELSE LET j == JwtNew(MergeClaims(claims, cfg.CustomClaims))
             IN  IF j.err # Nil
                 THEN [err |-> j.err, Token |-> <<>>, w |-> w]
                 ELSE CASE cfg.TokenStore = HeaderStore ->
                             [err |-> Nil, Token |-> j.token,
                              w |-> [w EXCEPT !.Authorization =
                                        Append(@, BearerPrefix \o j.token)]]
                        [] cfg.TokenStore = CookieStore ->
                             [err |-> Nil, Token |-> j.token,
                              w |-> [w EXCEPT !.Cookies =
                                        Append(@, [Name |-> apiAccessCookie,
                                                   Value |-> j.token,
                                                   Expires |-> exp,
                                                   Secure |-> cfg.SecureCookie])]]
                        [] OTHER ->
                             [err |-> "ErrTokenStore", Token |-> j.token, w |-> w]

\* ---------------------------------------------------------- token checks

\* strings.TrimPrefix(s, "Bearer ")
TrimBearer(s) ==
    IF Len(s) >= 1 /\ s[1].kind = "Bearer " THEN SubSeq(s, 2, Len(s)) ELSE s

\* getToken reading the Authorization header as it is
GetTokenNoTrim(req, tokenStore) ==
    CASE tokenStore = CookieStore ->
           IF req.Cookie.present
           THEN [token |-> req.Cookie.Value, err |-> Nil]
           ELSE [token |-> <<>>, err |-> "ErrNoCookie"]
      [] tokenStore = HeaderStore ->
           [token |-> req.Authorization, err |-> Nil]
      [] OTHER -> [token |-> <<>>, err |-> "ErrTokenStore"]

\* getToken(req, tokenStore): the token and the error
GetToken(req, tokenStore) ==
    CASE tokenStore = CookieStore ->
           IF req.Cookie.present
           THEN [token |-> req.Cookie.Value, err |-> Nil]
           ELSE [token |-> <<>>, err |-> "ErrNoCookie"]
      [] tokenStore = HeaderStore ->
           [token |-> TrimBearer(req.Authorization), err |-> Nil]
      [] OTHER -> [token |-> <<>>, err |-> "ErrTokenStore"]

\* the string is one encoded JWT
WellFormed(token) == Len(token) = 1 /\ token[1].kind = "jwt"

\* jwt.Passes(token) at time t: signed by the server, and the second of t is
\* not after the exp claim
JwtPasses(token, t) ==
    /\ WellFormed(token)
    /\ token[1].signed
    /\ "exp" \in DOMAIN token[1].claims
    /\ token[1].claims["exp"].t = "number"
    /\ Unix(t) <= token[1].claims["exp"].n

\* jwt.GetClaims(token)
JwtGetClaims(token) == IF WellFormed(token) THEN token[1].claims ELSE NoClaims

\* IsGranted(req, tokenStore) at time t
IsGranted(req, tokenStore, t) ==
    LET g == GetToken(req, tokenStore)
    IN  IF g.err # Nil THEN "false"
        ELSE IF JwtPasses(g.token, t) THEN "true" ELSE "false"

\* IsOwner without the jwt.Passes test
IsOwnerNoPasses(req, tokenStore, key, t) ==
    LET g == GetToken(req, tokenStore)
    IN  IF g.err # Nil THEN "false"
        ELSE LET claims == JwtGetClaims(g.token)
             IN  IF "access" \notin DOMAIN claims \/ claims["access"].t # "string"
                 THEN "panic"
                 ELSE IF claims["access"].s # key THEN "false" ELSE "true"

\* IsOwner(req, tokenStore, key) at time t; the type assertion
\* claims["access"].(string) panics on a missing or non-string entry
IsOwner(req, tokenStore, key, t) ==
    LET g == GetToken(req, tokenStore)
    IN  IF g.err # Nil THEN "false"
        ELSE IF ~JwtPasses(g.token, t) THEN "false"
        ELSE LET claims == JwtGetClaims(g.token)
             IN  IF "access" \notin DOMAIN claims \/ claims["access"].t # "string"
                 THEN "panic"
                 ELSE IF claims["access"].s # key THEN "false" ELSE "true"

\* the requests checked
TokenExps == {1}

TokenClaimSets ==
    {[k \in {"exp", "access"} |-> IF k = "exp" THEN Num(e) ELSE a]
        : e \in TokenExps, a \in {Str("a"), Str("A"), Num(1)}}
    \cup {[k \in {"exp"} |-> Num(e)] : e \in TokenExps}
    \cup {[k \in {"exp", "user"} |-> IF k = "exp" THEN Num(e) ELSE Str("a")]
             : e \in TokenExps}

OtherText == <<[kind |-> "text", signed |-> FALSE, claims |-> NoClaims]>>

TokenStrings ==
    {<<>>, OtherText} \cup {Jwt(sg, c) : sg \in BOOLEAN, c \in TokenClaimSets}

AuthorizationValues == TokenStrings \cup {BearerPrefix \o ts : ts \in TokenStrings}

CookieValues ==
    {[present |-> FALSE, Value |-> <<>>]}
    \cup {[present |-> TRUE, Value |-> ts] : ts \in TokenStrings}

Requests == [Authorization : AuthorizationValues, Cookie : CookieValues]

OwnerKeys == {"a", "A", "b"}

NoRequest ==
    [req |-> [Authorization |-> <<>>, Cookie |-> [present |-> FALSE, Value |-> <<>>]],
     tokenStore |-> OtherStore, key |-> "", isGranted |-> "none", isOwner |-> "none"]

\* ------------------------------------------------------------------- state

VARIABLES
    apiAccessStore,       \* bucket __apiAccess: key -> json of the user record
    apiPendingUserStore,  \* bucket __apiPending: key -> "pending"
    frame,                \* per worker: the running call, its locals and result
    resp,                 \* per worker: cfg.ResponseWriter of the running call
    pendingWins,          \* per key: Pending calls that succeeded since the key
                          \* last left the pending bucket (history)
    now,                  \* time.Now(), in ticks
    http                  \* a request under check: its token, the tokenStore and
                          \* key given, and what IsGranted and IsOwner returned

vars == <<apiAccessStore, apiPendingUserStore, frame, resp, pendingWins, now, http>>

\* a nil *APIAccess, and the APIAccess a call builds
NilAccess ==
    [isNil |-> TRUE, Key |-> "", Hash |-> NoHash, Salt |-> NoSalt, Token |-> <<>>]

APIAccess(usr, token) ==
    [isNil |-> FALSE, Key |-> usr.Email, Hash |-> usr.Hash, Salt |-> usr.Salt,
     Token |-> token]

IdleFrame ==
    [pc |-> "idle", op |-> "", key |-> "", password |-> "", cfg |-> NoConfig,
     u |-> NoUser, Token |-> <<>>, err |-> Nil, apiAccess |-> NilAccess,
     at |-> 0]

\* the frame of a call that has returned (value, err)
Returned(f, value, e) == [f EXCEPT !.pc = "done", !.apiAccess = value, !.err = e]

\* ------------------------------------------------- transaction closures
\* Each takes the bucket as the transaction finds it and gives the error the
\* closure returns and the bucket as committed (unchanged on an error: bolt
\* rolls the transaction back).

\* updateGrant(key, password, cfg), its View reading bucket b
UpdateGrant(b, key, password) ==
    IF ~Has(b, key)
    THEN "ErrGetGrant"
    ELSE LET apiAccess == UnmarshalAPIAccess(b[key])
             usr == [Email |-> apiAccess.Key, Hash |-> apiAccess.Hash,
                     Salt |-> apiAccess.Salt]
         IN  IF ~IsUser(usr, password) THEN "ErrUnauthorized" ELSE Nil

\* Grant's first Update putting the record whatever updateGrant returned
GrantUpdateAccessAlwaysPut(b, u, key, password) ==
    [err |-> IF Has(b, u.Email) THEN UpdateGrant(b, key, password) ELSE Nil,
     b |-> Put(b, u.Email, MarshalUser(u))]

\* Grant's first Update putting a record only for a key that has none
GrantUpdateAccessKeepsExisting(b, u, key, password) ==
    IF Has(b, u.Email)
    THEN [err |-> UpdateGrant(b, key, password), b |-> b]
    ELSE [err |-> Nil, b |-> Put(b, u.Email, MarshalUser(u))]

\* Grant's first Update, on __apiAccess
GrantUpdateAccess(b, u, key, password) ==
    LET e == IF Has(b, u.Email) THEN UpdateGrant(b, key, password) ELSE Nil
    IN  IF e # Nil
        THEN [err |-> e, b |-> b]
        ELSE [err |-> Nil, b |-> Put(b, u.Email, MarshalUser(u))]

\* Grant's second Update without the Delete
GrantUpdatePendingNoDelete(b, key) == [err |-> Nil, b |-> b]

\* Grant's second Update, on __apiPending
GrantUpdatePending(b, key) ==
    [err |-> Nil, b |-> IF Has(b, key) THEN Delete(b, key) ELSE b]

\* Login's Update without the call of updateGrant
LoginUpdateNoVerify(b, u, key, password) ==
    IF Has(b, u.Email)
    THEN [err |-> Nil, b |-> b]
    ELSE [err |-> "ErrNoGrant", b |-> b]

\* Login's Update putting the new record as Grant's does
LoginUpdatePuts(b, u, key, password) ==
    IF Has(b, u.Email)
    THEN LET e == UpdateGrant(b, key, password)
         IN  [err |-> e, b |-> IF e = Nil THEN Put(b, u.Email, MarshalUser(u)) ELSE b]
    ELSE [err |-> "ErrNoGrant", b |-> b]

\* Login's Update, on __apiAccess
LoginUpdate(b, u, key, password) ==
    IF Has(b, u.Email)
    THEN [err |-> UpdateGrant(b, key, password), b |-> b]
    ELSE [err |-> "ErrNoGrant", b |-> b]

\* Check's first View, on __apiAccess
CheckViewAccess(b, key) == IF Has(b, key) THEN "ErrActive" ELSE Nil

\* Check's second View, on __apiPending
CheckViewPending(b, key) == IF Has(b, key) THEN "ErrPending" ELSE Nil

\* Pending's Update without the test for a key already there
PendingUpdateNoTest(b, key) == [err |-> Nil, b |-> Put(b, key, "pending")]

\* Pending's Update, on __apiPending
PendingUpdate(b, key) ==
    IF Has(b, key)
    THEN [err |-> "ErrInUse", b |-> b]
    ELSE [err |-> Nil, b |-> Put(b, key, "pending")]

\* ClearPending's Update, on __apiPending
ClearPendingUpdate(b, key) ==
    [err |-> Nil, b |-> IF Has(b, key) THEN Delete(b, key) ELSE b]

\* ClearGrant's Update without the Delete
ClearGrantUpdateNoDelete(b, key) == [err |-> Nil, b |-> b]

\* ClearGrant's Update, on __apiAccess
ClearGrantUpdate(b, key) ==
    [err |-> Nil, b |-> IF Has(b, key) THEN Delete(b, key) ELSE b]

\* ----------------------------------------------------------------- actions

Init ==
    /\ apiAccessStore = EmptyBucket
    /\ apiPendingUserStore = EmptyBucket
    /\ frame = [p \in Procs |-> IdleFrame]
    /\ resp = [p \in Procs |-> EmptyResponse]
    /\ pendingWins = [k \in Keys |-> 0]
    /\ now = 0
    /\ http = NoRequest

\* Grant and Login up to their first transaction: the argument checks,
\* user.New and setToken.  Arguments the call returns without reading are
\* not recorded; `at` is the time.Now() that setToken read.
Begin(p, name, next, key, password, cfg) ==
    /\ frame[p].pc = "idle"
    /\ LET f0 == [IdleFrame EXCEPT !.op = name, !.key = key]
           f1 == [f0 EXCEPT !.password = password]
       IN  IF key = ""
           THEN /\ frame' = [frame EXCEPT ![p] = Returned(f0, NilAccess, "ErrEmptyKey")]
                /\ UNCHANGED resp
           ELSE IF password = ""
           THEN /\ frame' = [frame EXCEPT ![p] = Returned(f1, NilAccess, "ErrEmptyPassword")]
                /\ UNCHANGED resp
           ELSE \E u \in UserNew(key, password) :
                IF u.err # Nil
                THEN /\ frame' = [frame EXCEPT ![p] = Returned(f1, NilAccess, u.err)]
                     /\ UNCHANGED resp
                ELSE LET st == SetToken(u.Email, cfg, now, resp[p])
                         f2 == [f1 EXCEPT !.cfg = cfg, !.u = u, !.Token = st.Token,
                                          !.at = now]
                     IN  /\ resp' = [resp EXCEPT ![p] = st.w]
                         /\ frame' = [frame EXCEPT ![p] =
                                IF st.err # Nil
                                THEN Returned(f2, NilAccess, st.err)
                                ELSE [f2 EXCEPT !.pc = next]]
    /\ UNCHANGED <<apiAccessStore, apiPendingUserStore, pendingWins, now, http>>

GrantBegin(p, key, password, cfg) == Begin(p, "Grant", "GrantUpdateAccess", key, password, cfg)

GrantTx1(p) ==
    /\ frame[p].pc = "GrantUpdateAccess"
    /\ LET f == frame[p]
           r == GrantUpdateAccess(apiAccessStore, f.u, f.key, f.password)
       IN  /\ apiAccessStore' = r.b
           /\ frame' = [frame EXCEPT ![p] = [f EXCEPT !.pc = "GrantUpdatePending", !.err = r.err]]
    /\ UNCHANGED <<apiPendingUserStore, resp, pendingWins, now, http>>

GrantTx2(p) ==
    /\ frame[p].pc = "GrantUpdatePending"
    /\ LET f == frame[p]
           r == GrantUpdatePending(apiPendingUserStore, f.u.Email)
       IN  /\ apiPendingUserStore' = r.b
           /\ pendingWins' = [pendingWins EXCEPT ![f.u.Email] = 0]
           /\ frame' = [frame EXCEPT ![p] =
                  IF r.err # Nil
                  THEN Returned(f, NilAccess, r.err)
                  ELSE Returned(f, APIAccess(f.u, f.Token), Nil)]
    /\ UNCHANGED <<apiAccessStore, resp, now, http>>

LoginBegin(p, key, password, cfg) == Begin(p, "Login", "LoginUpdate", key, password, cfg)

LoginTx(p) ==
    /\ frame[p].pc = "LoginUpdate"
    /\ LET f == frame[p]
           r == LoginUpdate(apiAccessStore, f.u, f.key, f.password)
       IN  /\ apiAccessStore' = r.b
           /\ frame' = [frame EXCEPT ![p] =
                  IF r.err # Nil
                  THEN Returned(f, NilAccess, r.err)
                  ELSE Returned(f, APIAccess(f.u, f.Token), Nil)]
    /\ UNCHANGED <<apiPendingUserStore, resp, pendingWins, now, http>>

CheckView1(p, key) ==
    /\ frame[p].pc = "idle"
    /\ LET f == [IdleFrame EXCEPT !.op = "Check", !.key = key]
       IN  frame' = [frame EXCEPT ![p] =
               IF key = ""
               THEN Returned(f, NilAccess, "ErrEmptyKey")
               ELSE [f EXCEPT !.pc = "CheckViewPending",
                              !.err = CheckViewAccess(apiAccessStore, key)]]
    /\ UNCHANGED <<apiAccessStore, apiPendingUserStore, resp, pendingWins, now, http>>

CheckView2(p) ==
    /\ frame[p].pc = "CheckViewPending"
    /\ LET f == frame[p]
       IN  frame' = [frame EXCEPT ![p] =
               Returned(f, NilAccess, CheckViewPending(apiPendingUserStore, f.key))]
    /\ UNCHANGED <<apiAccessStore, apiPendingUserStore, resp, pendingWins, now, http>>

Pending(p, key) ==
    /\ frame[p].pc = "idle"
    /\ LET f == [IdleFrame EXCEPT !.op = "Pending", !.key = key]
           r == PendingUpdate(apiPendingUserStore, key)
       IN  IF key = ""
           THEN /\ frame' = [frame EXCEPT ![p] = Returned(f, NilAccess, "ErrEmptyKey")]
                /\ UNCHANGED <<apiPendingUserStore, pendingWins>>
           ELSE /\ apiPendingUserStore' = r.b
                /\ frame' = [frame EXCEPT ![p] = Returned(f, NilAccess, r.err)]
                /\ pendingWins' =
                       IF r.err = Nil /\ pendingWins[key] < 2
                       THEN [pendingWins EXCEPT ![key] = @ + 1]
                       ELSE pendingWins
    /\ UNCHANGED <<apiAccessStore, resp, now, http>>

ClearPending(p, key) ==
    /\ frame[p].pc = "idle"
    /\ LET f == [IdleFrame EXCEPT !.op = "ClearPending", !.key = key]
           r == ClearPendingUpdate(apiPendingUserStore, key)
       IN  IF key = ""
           THEN /\ frame' = [frame EXCEPT ![p] = Returned(f, NilAccess, "ErrEmptyKey")]
                /\ UNCHANGED <<apiPendingUserStore, pendingWins>>
           ELSE /\ apiPendingUserStore' = r.b
                /\ pendingWins' = [pendingWins EXCEPT ![key] = 0]
                /\ frame' = [frame EXCEPT ![p] = Returned(f, NilAccess, r.err)]
    /\ UNCHANGED <<apiAccessStore, resp, now, http>>

ClearGrant(p, key) ==
    /\ frame[p].pc = "idle"
    /\ LET f == [IdleFrame EXCEPT !.op = "ClearGrant", !.key = key]
           r == ClearGrantUpdate(apiAccessStore, key)
       IN  IF key = ""
           THEN /\ frame' = [frame EXCEPT ![p] = Returned(f, NilAccess, "ErrEmptyKey")]
                /\ UNCHANGED apiAccessStore
           ELSE /\ apiAccessStore' = r.b
                /\ frame' = [frame EXCEPT ![p] = Returned(f, NilAccess, r.err)]
    /\ UNCHANGED <<apiPendingUserStore, resp, pendingWins, now, http>>

\* the caller takes the result; the worker serves its next request with a
\* fresh response writer
Return(p) ==
    /\ frame[p].pc = "done"
    /\ frame' = [frame EXCEPT ![p] = IdleFrame]
    /\ resp' = [resp EXCEPT ![p] = EmptyResponse]
    /\ UNCHANGED <<apiAccessStore, apiPendingUserStore, pendingWins, now, http>>

WorkerNext(p) ==
        \/ \E key \in Keys, password \in Passwords, cfg \in Configs :
               GrantBegin(p, key, password, cfg)
        \/ GrantTx1(p)
        \/ GrantTx2(p)
        \/ \E key \in Keys, password \in Passwords, cfg \in Configs :
               LoginBegin(p, key, password, cfg)
        \/ LoginTx(p)
        \/ \E key \in Keys : CheckView1(p, key)
        \/ CheckView2(p)
        \/ \E key \in Keys : Pending(p, key)
        \/ \E key \in Keys : ClearPending(p, key)
        \/ \E key \in Keys : ClearGrant(p, key)
        \/ Return(p)

Next == \E p \in Procs : WorkerNext(p)

Spec == Init /\ [][Next]_vars

\* ------------------------------------------- the token checks on a request
\* IsGranted and IsOwner read nothing but the request, the tokenStore, the key
\* and the clock: each is applied to every request at every time.

InitVerify ==
    /\ apiAccessStore = EmptyBucket
    /\ apiPendingUserStore = EmptyBucket
    /\ frame = [p \in Procs |-> IdleFrame]
    /\ resp = [p \in Procs |-> EmptyResponse]
    /\ pendingWins = [k \in Keys |-> 0]
    /\ now \in 0..MaxTime
    /\ http \in [req : Requests, tokenStore : TokenStores, key : OwnerKeys,
                 isGranted : {"none"}, isOwner : {"none"}]

IsGrantedCall ==
    /\ http.isGranted = "none"
    /\ http' = [http EXCEPT !.isGranted = IsGranted(http.req, http.tokenStore, now)]
    /\ UNCHANGED <<apiAccessStore, apiPendingUserStore, frame, resp, pendingWins, now>>

IsOwnerCall ==
    /\ http.isOwner = "none"
    /\ http' = [http EXCEPT !.isOwner = IsOwner(http.req, http.tokenStore, http.key, now)]
    /\ UNCHANGED <<apiAccessStore, apiPendingUserStore, frame, resp, pendingWins, now>>

NextVerify == IsGrantedCall \/ IsOwnerCall

SpecVerify == InitVerify /\ [][NextVerify]_vars

\* ------------------------------------------------ registration, end to end
\* One caller registers identities one call after the other: it asks Check
\* whether an identity is free, reserves an identity that is in neither
\* bucket with Pending, then calls Grant for the reserved identity;
\* ClearGrant and ClearPending free identities again.

Registrar == "w1"

RegisterPending(key) ==
    /\ ~Has(apiPendingUserStore, key)
    /\ ~Has(apiAccessStore, key)
    /\ Pending(Registrar, key)

RegisterGrant(key, password, cfg) ==
    /\ Has(apiPendingUserStore, key)
    /\ ~Has(apiAccessStore, key)
    /\ GrantBegin(Registrar, key, password, cfg)

NextRegister ==
    \/ \E key \in Keys : CheckView1(Registrar, key)
    \/ CheckView2(Registrar)
    \/ \E key \in Keys : RegisterPending(key)
    \/ \E key \in Keys, password \in Passwords, cfg \in Configs :
           RegisterGrant(key, password, cfg)
    \/ GrantTx1(Registrar)
    \/ GrantTx2(Registrar)
    \/ \E key \in Keys : ClearPending(Registrar, key)
    \/ \E key \in Keys : ClearGrant(Registrar, key)
    \/ Return(Registrar)

SpecRegister == Init /\ [][NextRegister]_vars

\* ------------------------------------------- a token, issued and presented
\* One caller makes one Grant or Login at some time, with any lifetime and
\* custom claims; the client then sends what the response gave it back in a
\* request, and IsGranted checks the request as the clock goes on.

Issuer == "w1"

\* cfg.ExpireAfter is a time.Duration: negative, zero, less than a second, more
TokenLifetimes == -1 .. (Lifetime + 1)

TokenCustomClaimSets ==
    {NoClaims,
     [x \in {"role"} |-> Str("admin")],
     [x \in {"access"} |-> Str("x")],
     [x \in {"role", "access"} |-> Str("x")]}

TokenConfigs ==
    [ExpireAfter : TokenLifetimes, TokenStore : TokenStores,
     CustomClaims : TokenCustomClaimSets, SecureCookie : {FALSE}]

InitToken ==
    /\ apiAccessStore \in
          {EmptyBucket}
          \cup {Put(EmptyBucket, "a", MarshalUser(u))
                   : u \in {v \in UserNew("a", "x") : v.err = Nil}}
    /\ apiPendingUserStore = EmptyBucket
    /\ frame = [p \in Procs |-> IdleFrame]
    /\ resp = [p \in Procs |-> EmptyResponse]
    /\ pendingWins = [k \in Keys |-> 0]
    /\ now \in 0..MaxTime
    /\ http = NoRequest

IssueGrant(cfg) == GrantBegin(Issuer, "a", "x", cfg)

IssueLogin(cfg) == LoginBegin(Issuer, "a", "x", cfg)

\* time passes
Tick ==
    /\ now < MaxTime
    /\ now' = now + 1
    /\ UNCHANGED <<apiAccessStore, apiPendingUserStore, frame, resp, pendingWins, http>>

\* the request of a client that got response w: the Authorization header and
\* the cookie last set
RequestFrom(w) ==
    [Authorization |->
        IF Len(w.Authorization) > 0 THEN w.Authorization[Len(w.Authorization)] ELSE <<>>,
     Cookie |->
        IF Len(w.Cookies) > 0
        THEN [present |-> TRUE, Value |-> w.Cookies[Len(w.Cookies)].Value]
        ELSE [present |-> FALSE, Value |-> <<>>]]

\* the client of a call that returned nil sends its token back, in the
\* transport the call was configured with
Present ==
    /\ frame[Issuer].pc = "done"
    /\ frame[Issuer].err = Nil
    /\ http' = [req |-> RequestFrom(resp[Issuer]),
                tokenStore |-> frame[Issuer].cfg.TokenStore,
                key |-> frame[Issuer].key,
                isGranted |-> "none", isOwner |-> "none"]
    /\ UNCHANGED <<apiAccessStore, apiPendingUserStore, frame, resp, pendingWins, now>>

NextToken ==
    \/ \E cfg \in TokenConfigs : IssueGrant(cfg)
    \/ GrantTx1(Issuer)
    \/ GrantTx2(Issuer)
    \/ \E cfg \in TokenConfigs : IssueLogin(cfg)
    \/ LoginTx(Issuer)
    \/ Tick
    \/ Present
    \/ IsGrantedCall

SpecToken == InitToken /\ [][NextToken]_vars

\* ------------------------------------------------------------ GateKeeper
\* The handler GateKeeper(next) returns, serving one request.  An address is
\* a sequence of pieces, ":" being a piece of its own.

\* trimPortFromAddress(s): s up to its first ":"
RECURSIVE TrimPortFromAddress(_)
TrimPortFromAddress(s) ==
    IF s = <<>> \/ Head(s) = ":"
    THEN <<>>
    ELSE <<Head(s)>> \o TrimPortFromAddress(Tail(s))

StatusUnauthorized == 401

RemoteAddrs ==
    {<<"127.0.0.1", ":", "9000">>, <<"127.0.0.1">>,
     <<"10.0.0.2", ":", "9000">>, <<>>}

BindAddrs == {<<"127.0.0.1">>, <<"10.0.0.2">>}

\* the fields of http.Request that the build compiles in, each exported or
\* not: all exported before Go 1.7, with the unexported ctx since
RequestFieldSets ==
    {<<[Name |-> "Method", exported |-> TRUE], [Name |-> "RemoteAddr", exported |-> TRUE]>>,
     <<[Name |-> "Method", exported |-> TRUE], [Name |-> "RemoteAddr", exported |-> TRUE],
       [Name |-> "ctx", exported |-> FALSE]>>}

\* the loop printing every field of *req: s.Field(i).Interface() panics on
\* an unexported field
DumpRequest(fields) ==
    IF \E i \in 1..Len(fields) : ~fields[i].exported THEN "panic" ELSE "normal"

\* the requests served: session is what user.IsValid(req) returns
GateRequests ==
    [Authorization : AuthorizationValues,
     Cookie : {[present |-> FALSE, Value |-> <<>>]},
     RemoteAddr : RemoteAddrs,
     session : BOOLEAN,
     fields : RequestFieldSets]

NotServed == [handler |-> "none", status |-> 0, outcome |-> "none"]

InitGate ==
    /\ apiAccessStore = EmptyBucket
    /\ apiPendingUserStore = EmptyBucket
    /\ frame = [p \in Procs |-> IdleFrame]
    /\ resp = [p \in Procs |-> EmptyResponse]
    /\ pendingWins = [k \in Keys |-> 0]
    /\ now \in 0..MaxTime
    /\ http \in [req : GateRequests, bind_addr : BindAddrs, res : {NotServed}]

\* the condition under which GateKeeper calls next.ServeHTTP
GateAdmits(req, bind_addr, t) ==
    \/ IsGranted(req, HeaderStore, t) = "true"
    \/ req.session
    \/ TrimPortFromAddress(req.RemoteAddr) = bind_addr

GateKeeper ==
    /\ http.res = NotServed
    /\ http' = [http EXCEPT !.res =
                  IF GateAdmits(http.req, http.bind_addr, now)
                  THEN [handler |-> "next", status |-> 0, outcome |-> "normal"]
                  ELSE [handler |-> "rejected", status |-> StatusUnauthorized,
                        outcome |-> DumpRequest(http.req.fields)]]
    /\ UNCHANGED <<apiAccessStore, apiPendingUserStore, frame, resp, pendingWins, now>>

NextGate == GateKeeper

SpecGate == InitGate /\ [][NextGate]_vars

\* ------------------------------------------------------------ vocabulary

\* this step is the one in which worker p's call of `name` returns
Returns(p, name) ==
    /\ frame[p].pc # "done"
    /\ frame'[p].pc = "done"
    /\ frame'[p].op = name

\* this step is a step of worker p's call of `name`
StepOf(p, name) == frame'[p] # frame[p] /\ frame'[p].op = name

\* the credential record kept in __apiAccess under a key
StoredUser(j) == [Email |-> j.email, Hash |-> j.hash, Salt |-> j.salt]

Verifies(b, key, password) == Has(b, key) /\ IsUser(StoredUser(b[key]), password)

StoresUnchanged ==
    /\ apiAccessStore' = apiAccessStore
    /\ apiPendingUserStore' = apiPendingUserStore

\* ------------------------------------------------------------------ claims

\* C1: no identity is in the pending bucket and in the active bucket at once.
C1_PendingActiveDisjoint ==
    (DOMAIN apiPendingUserStore) \cap (DOMAIN apiAccessStore) = {}

\* C2: Check(k), k non-empty, returns nil exactly when k is in neither
\* bucket: absent from __apiAccess when Check read it (the error its first
\* View gave) and absent from __apiPending when Check read it.
C2_CheckSucceedsIffAbsent ==
    [][\A p \in Procs :
          (Returns(p, "Check") /\ frame'[p].key # "")
          => (frame'[p].err = Nil
                <=> (/\ frame[p].err = Nil
                     /\ ~Has(apiPendingUserStore, frame'[p].key)))]_vars

\* C3: Pending(k), k non-empty, returns an error and changes no bucket when k
\* is pending or active; otherwise it puts k into __apiPending and returns nil.
C3_PendingRejectsPendingOrActive ==
    [][\A p \in Procs :
          (Returns(p, "Pending") /\ frame'[p].key # "")
          => LET k == frame'[p].key
             IN  IF Has(apiPendingUserStore, k) \/ Has(apiAccessStore, k)
                 THEN frame'[p].err = "ErrInUse" /\ StoresUnchanged
                 ELSE /\ frame'[p].err = Nil
                      /\ apiPendingUserStore' = Put(apiPendingUserStore, k, "pending")
                      /\ apiAccessStore' = apiAccessStore]_vars

\* C4: of the Pending(k) calls made while k is not taken out of the pending
\* bucket (by ClearPending(k) or Grant(k)), at most one returns nil, and every
\* other one returns the in-use error.
C4_AtMostOnePendingSucceeds ==
    /\ \A k \in Keys : pendingWins[k] <= 1
    /\ \A p \in Procs :
          (frame[p].pc = "done" /\ frame[p].op = "Pending" /\ frame[p].key # "")
          => frame[p].err \in {Nil, "ErrInUse"}

\* C4 witness: one Pending(k) has won and another has returned the error.
C4_Witness ==
    \E p \in Procs :
        /\ frame[p].pc = "done" /\ frame[p].op = "Pending"
        /\ frame[p].err = "ErrInUse"
        /\ pendingWins[frame[p].key] = 1

\* C5: a Grant whose first transaction found a grant for k that the password
\* does not verify against returns an error and a nil APIAccess.
C5_GrantWrongSecretFails ==
    [][\A p \in Procs :
          (Returns(p, "Grant") /\ frame[p].pc = "GrantUpdatePending"
             /\ frame[p].err = "ErrUnauthorized")
          => (frame'[p].err # Nil /\ frame'[p].apiAccess.isNil)]_vars

\* C6: the record of k in __apiAccess is created, or replaced by another,
\* only by the first transaction of a Grant(k, pw) whose pw verifies against
\* the record being replaced (if there is one); a Grant(k, pw) whose pw does
\* not verify against the record leaves the bucket as it was.
C6_RecordReplacedOnlyWithSecret ==
    [][\A k \in Keys :
          /\ (/\ Has(apiAccessStore', k)
              /\ (Has(apiAccessStore, k) => apiAccessStore'[k] # apiAccessStore[k]))
             => \E p \in Procs :
                   /\ frame[p].pc = "GrantUpdateAccess"
                   /\ frame'[p].pc = "GrantUpdatePending"
                   /\ frame[p].key = k
                   /\ (Has(apiAccessStore, k)
                         => Verifies(apiAccessStore, k, frame[p].password))
          /\ \A p \in Procs :
                (/\ frame[p].pc = "GrantUpdateAccess"
                 /\ frame'[p].pc = "GrantUpdatePending"
                 /\ frame[p].key = k
                 /\ Has(apiAccessStore, k)
                 /\ ~Verifies(apiAccessStore, k, frame[p].password))
                => apiAccessStore' = apiAccessStore]_vars

\* C6 witness: a Grant with the wrong secret has run its first transaction
\* against an existing record, and the record is the one made with the other
\* secret.
C6_Witness ==
    \E p \in Procs :
        /\ frame[p].pc = "GrantUpdatePending"
        /\ frame[p].err = "ErrUnauthorized"
        /\ Has(apiAccessStore, frame[p].key)
        /\ ~Verifies(apiAccessStore, frame[p].key, frame[p].password)

\* what C7 says of a Login(k, pw, cfg) that returns in this step
LoginOutcome(p) ==
    LET k  == frame'[p].key
        pw == frame'[p].password
    IN  /\ (frame'[p].err = Nil <=> Verifies(apiAccessStore, k, pw))
        /\ (frame'[p].err = Nil <=> ~frame'[p].apiAccess.isNil)
        /\ (~Has(apiAccessStore, k) => frame'[p].err = "ErrNoGrant")
        /\ ((Has(apiAccessStore, k) /\ ~Verifies(apiAccessStore, k, pw))
              => frame'[p].err = "ErrUnauthorized")

\* C7 as claimed: every Login(k, pw, cfg) with non-empty k and pw (whose
\* user.New gave a user) returns nil exactly when k has a grant that pw
\* verifies against, the no-grant error when k has no grant, and the
\* unauthorized error when pw does not verify.
C7_LoginOutcome_AnyConfig ==
    [][\A p \in Procs :
          (/\ Returns(p, "Login")
           /\ frame'[p].key # "" /\ frame'[p].password # ""
           /\ frame'[p].err # "ErrUserNew")
          => LoginOutcome(p)]_vars

\* C7 as amended: the same, of every Login whose user.New and setToken
\* returned no error (the call reached its transaction).
C7_LoginOutcome ==
    [][\A p \in Procs :
          (Returns(p, "Login") /\ frame[p].pc = "LoginUpdate")
          => (frame'[p].key # "" /\ frame'[p].password # "" /\ LoginOutcome(p))]_vars

\* C7 witness: one Login has returned nil and another the unauthorized error.
C7_Witness ==
    \E p, q \in Procs :
        /\ frame[p].pc = "done" /\ frame[p].op = "Login" /\ frame[p].err = Nil
        /\ frame[q].pc = "done" /\ frame[q].op = "Login"
        /\ frame[q].err = "ErrUnauthorized"

\* C8: no step of a Login call changes __apiPending or __apiAccess.
C8_LoginChangesNoStore ==
    [][\A p \in Procs : StepOf(p, "Login") => StoresUnchanged]_vars

\* C8 witness: a Login has returned nil for a key that has a grant, and
\* another has returned an error.
C8_Witness ==
    \E p, q \in Procs :
        /\ frame[p].pc = "done" /\ frame[p].op = "Login" /\ frame[p].err = Nil
        /\ Has(apiAccessStore, frame[p].key)
        /\ frame[q].pc = "done" /\ frame[q].op = "Login"
        /\ frame[q].err = "ErrNoGrant"

\* a Config whose CustomClaims hold "exp" or "access", or whose TokenStore is
\* neither a header nor a cookie
RejectedConfig(cfg) ==
    \/ "exp" \in DOMAIN cfg.CustomClaims
    \/ "access" \in DOMAIN cfg.CustomClaims
    \/ cfg.TokenStore \notin {HeaderStore, CookieStore}

\* C9: a Grant or Login that calls setToken with such a Config returns in that
\* step with setToken's error and a nil APIAccess, its response holds no
\* Authorization header and no cookie, and neither bucket has changed.
C9_RejectedConfigWritesNothing ==
    [][\A p \in Procs :
          (/\ frame[p].pc = "idle"
           /\ frame'[p].op \in {"Grant", "Login"}
           /\ frame'[p].cfg \in Configs
           /\ RejectedConfig(frame'[p].cfg))
          => /\ frame'[p].pc = "done"
             /\ frame'[p].err \in {"ErrClaimCollision", "ErrTokenStore", "ErrJwt"}
             /\ frame'[p].apiAccess.isNil
             /\ resp'[p] = EmptyResponse
             /\ StoresUnchanged]_vars

\* C9 witness: a Grant has returned the collision error and a Login the
\* token-store error, while a grant is stored.
C9_Witness ==
    \E p, q \in Procs :
        /\ frame[p].pc = "done" /\ frame[p].op = "Grant"
        /\ frame[p].err = "ErrClaimCollision"
        /\ frame[q].pc = "done" /\ frame[q].op = "Login"
        /\ frame[q].err = "ErrTokenStore"
        /\ resp[p] = EmptyResponse /\ resp[q] = EmptyResponse
        /\ Has(apiAccessStore, frame[p].key)

\* the subject ("access") claim of the token the request carries in the given
\* tokenStore is the string key
SubjectIs(req, tokenStore, key) ==
    LET claims == JwtGetClaims(GetToken(req, tokenStore).token)
    IN  /\ "access" \in DOMAIN claims
        /\ claims["access"] = Str(key)

\* C10: IsOwner(req, tokenStore, key) is true exactly when IsGranted(req,
\* tokenStore) is true and the token's "access" claim is the string key.
C10_IsOwnerIffGrantedAndSubject ==
    (http.isGranted # "none" /\ http.isOwner # "none")
    => (http.isOwner = "true"
          <=> (/\ http.isGranted = "true"
               /\ SubjectIs(http.req, http.tokenStore, http.key)))

\* C10 witness: both checks have run on a request whose token passes and whose
\* subject differs from the key only in case.
C10_Witness ==
    /\ http.isGranted = "true"
    /\ http.isOwner = "false"
    /\ http.key = "A"
    /\ SubjectIs(http.req, http.tokenStore, "a")

\* C11: IsGranted and IsOwner return a boolean and never panic; a request
\* whose token cannot be got, whose token does not pass, or whose passing
\* token has no string "access" claim is answered false.
C11_ChecksAlwaysBoolean ==
    LET g      == GetToken(http.req, http.tokenStore)
        passes == g.err = Nil /\ JwtPasses(g.token, now)
        claims == JwtGetClaims(g.token)
        noSubject == "access" \notin DOMAIN claims \/ claims["access"].t # "string"
    IN  /\ http.isGranted \in {"none", "true", "false"}
        /\ http.isOwner \in {"none", "true", "false"}
        /\ (http.isGranted # "none" /\ ~passes) => http.isGranted = "false"
        /\ (http.isOwner # "none" /\ (~passes \/ noSubject)) => http.isOwner = "false"

\* the errors by which a call tells that the caller is not authorized
AuthorizationErrors == {"ErrNoGrant", "ErrUnauthorized", "ErrGetGrant"}

\* C17: Grant and Login write a token to the response only when the call is
\* authorized: the response of a Login that returned the no-grant or the
\* unauthorized error, and of a Grant whose first transaction found the
\* secret not to verify, holds no Authorization header and no cookie.
C17_TokenWrittenOnlyWhenAuthorized ==
    \A p \in Procs :
        /\ (/\ frame[p].pc = "done" /\ frame[p].op = "Login"
            /\ frame[p].err \in AuthorizationErrors)
           => resp[p] = EmptyResponse
        /\ (/\ frame[p].pc = "GrantUpdatePending"
            /\ frame[p].err \in AuthorizationErrors)
           => resp[p] = EmptyResponse

\* the step in which worker p's Grant commits its first Update
GrantCommitsAccess(p) ==
    /\ frame[p].pc = "GrantUpdateAccess"
    /\ frame'[p].pc = "GrantUpdatePending"

\* C18: the step in which a Grant(k) puts k into __apiAccess also takes k out
\* of __apiPending: no state has the Grant's record in the active bucket and
\* k's reservation still in the pending bucket.
C18_GrantPromotionAtomic ==
    [][\A p \in Procs :
          (GrantCommitsAccess(p) /\ frame'[p].err = Nil)
          => ~Has(apiPendingUserStore', frame[p].key)]_vars

\* C19 as claimed: a Grant(k, pw) whose first transaction finds a grant for k
\* that pw verifies against keeps k in the active bucket, holds a fresh
\* token, and leaves the record of k as it was.
C19_RegrantKeepsRecord ==
    [][\A p \in Procs :
          (GrantCommitsAccess(p)
             /\ Verifies(apiAccessStore, frame[p].key, frame[p].password))
          => LET k == frame[p].key
             IN  /\ frame'[p].err = Nil
                 /\ Has(apiAccessStore', k)
                 /\ frame'[p].Token # <<>>
                 /\ apiAccessStore'[k] = apiAccessStore[k]]_vars

\* C19 as amended: such a Grant keeps k in the active bucket, holds a fresh
\* token, and replaces the record of k by the one user.New derived in this
\* call, which pw verifies against; no other key's record changes.
C19_RegrantReplacesRecord ==
    [][\A p \in Procs :
          (GrantCommitsAccess(p)
             /\ Verifies(apiAccessStore, frame[p].key, frame[p].password))
          => LET k == frame[p].key
             IN  /\ frame'[p].err = Nil
                 /\ Has(apiAccessStore', k)
                 /\ frame'[p].Token # <<>>
                 /\ apiAccessStore'[k] = MarshalUser(frame[p].u)
                 /\ Verifies(apiAccessStore', k, frame[p].password)
                 /\ apiAccessStore' = Put(apiAccessStore, k, apiAccessStore'[k])]_vars

\* C19 witness: a Grant has run its first transaction after another Grant of
\* the same key and secret that drew another salt, and the record is its own.
C19_Witness ==
    \E p, q \in Procs :
        /\ frame[p].pc = "GrantUpdatePending" /\ frame[p].err = Nil
        /\ frame[q].pc = "done" /\ frame[q].op = "Grant" /\ frame[q].err = Nil
        /\ frame[q].key = frame[p].key
        /\ frame[q].password = frame[p].password
        /\ frame[q].u.Salt # frame[p].u.Salt
        /\ Has(apiAccessStore, frame[p].key)
        /\ apiAccessStore[frame[p].key] = MarshalUser(frame[p].u)

\* C15: ClearPending(k) and ClearGrant(k), k non-empty, return nil, leave k
\* out of __apiPending and __apiAccess respectively, touch no other key and
\* not the other bucket, change nothing when k was not there, and applied
\* again give the same bucket; after ClearGrant(k) with k not pending, both
\* Views of Check(k) find k absent.
C15_ClearsIdempotent ==
    [][\A p \in Procs :
          /\ (Returns(p, "ClearPending") /\ frame'[p].key # "")
             => LET k == frame'[p].key
                IN  /\ frame'[p].err = Nil
                    /\ ~Has(apiPendingUserStore', k)
                    /\ \A j \in Keys \ {k} :
                          /\ Has(apiPendingUserStore', j) = Has(apiPendingUserStore, j)
                    /\ apiAccessStore' = apiAccessStore
                    /\ (~Has(apiPendingUserStore, k)
                          => apiPendingUserStore' = apiPendingUserStore)
                    /\ ClearPendingUpdate(apiPendingUserStore', k).b = apiPendingUserStore'
          /\ (Returns(p, "ClearGrant") /\ frame'[p].key # "")
             => LET k == frame'[p].key
                IN  /\ frame'[p].err = Nil
                    /\ ~Has(apiAccessStore', k)
                    /\ \A j \in Keys \ {k} :
                          /\ Has(apiAccessStore', j) = Has(apiAccessStore, j)
                    /\ apiPendingUserStore' = apiPendingUserStore
                    /\ (~Has(apiAccessStore, k) => apiAccessStore' = apiAccessStore)
                    /\ ClearGrantUpdate(apiAccessStore', k).b = apiAccessStore'
                    /\ ~Has(apiPendingUserStore', k)
                         => /\ CheckViewAccess(apiAccessStore', k) = Nil
                            /\ CheckViewPending(apiPendingUserStore', k) = Nil]_vars

\* C15 witness: a Grant(k) has returned nil, a ClearGrant(k) has returned
\* after it, and k is in neither bucket.
C15_Witness ==
    \E p, q \in Procs :
        /\ frame[q].pc = "done" /\ frame[q].op = "Grant" /\ frame[q].err = Nil
        /\ frame[p].pc = "done" /\ frame[p].op = "ClearGrant"
        /\ frame[p].key = frame[q].key
        /\ ~Has(apiAccessStore, frame[p].key)
        /\ ~Has(apiPendingUserStore, frame[p].key)

\* C14: a Grant(k, pw, cfg) called for a k that Pending(k) reserved while k
\* was in neither bucket, once it has returned nil, has left k out of
\* __apiPending and in __apiAccess with a record that pw verifies against.
C14_PendingThenGrant ==
    LET f == frame[Registrar]
    IN  (f.pc = "done" /\ f.op = "Grant" /\ f.err = Nil)
        => /\ ~Has(apiPendingUserStore, f.key)
           /\ Has(apiAccessStore, f.key)
           /\ Verifies(apiAccessStore, f.key, f.password)
           /\ ~f.apiAccess.isNil
           /\ f.apiAccess.Key = f.key

\* C14 witness: the Grant of a reserved identity has returned nil.
C14_Witness ==
    LET f == frame[Registrar]
    IN  /\ f.pc = "done" /\ f.op = "Grant" /\ f.err = Nil
        /\ f.key = "a" /\ f.password = "x"
        /\ ~Has(apiPendingUserStore, "a")
        /\ Verifies(apiAccessStore, "a", "x")

\* this step is IsGranted answering for the request the Issuer's client sent
ChecksIssued ==
    /\ http.tokenStore \in {HeaderStore, CookieStore}
    /\ http.isGranted = "none"
    /\ http'.isGranted # "none"

\* the instant the Issuer's token was issued for: time of setToken + lifetime
Deadline == frame[Issuer].at + frame[Issuer].cfg.ExpireAfter

\* C12 as claimed: the token of a Grant or Login with a lifetime above zero,
\* sent back in the transport it was issued in, passes IsGranted at every time before issuance + lifetime
\* and fails it at every time after.
C12_PassesBeforeFailsAfter ==
    [][(ChecksIssued /\ frame[Issuer].cfg.ExpireAfter > 0)
         => /\ (now < Deadline) => http'.isGranted = "true"
            /\ (now > Deadline) => http'.isGranted = "false"]_vars

\* C12 as amended: it passes at every time a second or more before issuance +
\* lifetime and fails at every time a second or more after; nothing but the
\* clock has to change in between.
C12_PassesBeforeFailsAfterBySeconds ==
    [][ChecksIssued
         => /\ (now + TicksPerSecond <= Deadline) => http'.isGranted = "true"
            /\ (now >= Deadline + TicksPerSecond) => http'.isGranted = "false"]_vars

\* C12 witness: a token with a lifetime of a second or more, sent back in the
\* header, has passed its time and IsGranted has refused it.
C12_Witness ==
    /\ frame[Issuer].pc = "done" /\ frame[Issuer].err = Nil
    /\ frame[Issuer].cfg.ExpireAfter >= TicksPerSecond
    /\ http.tokenStore = HeaderStore
    /\ http.req = RequestFrom(resp[Issuer])
    /\ now >= Deadline + TicksPerSecond
    /\ http.isGranted = "false"

\* the "access" claim of an encoded token
Subject(token) == token[1].claims["access"]

\* C16: every token setToken made in a Grant(k, ...) or Login(k, ...), as kept
\* in the APIAccess, as written to the Authorization header and as written
\* to the cookie, has the "access" claim k, whatever the custom claims; the
\* APIAccess returned has Key k and that token.
C16_SubjectIsKey ==
    LET f == frame[Issuer]
        w == resp[Issuer]
    IN  /\ f.Token # <<>> => Subject(f.Token) = Str(f.key)
        /\ ~f.apiAccess.isNil
             => /\ f.apiAccess.Key = f.key
                /\ f.apiAccess.Token = f.Token
                /\ f.Token # <<>>
        /\ \A i \in 1..Len(w.Authorization) :
              Subject(TrimBearer(w.Authorization[i])) = Str(f.key)
        /\ \A i \in 1..Len(w.Cookies) : Subject(w.Cookies[i].Value) = Str(f.key)
        /\ f.Token # <<>>
             => \A c \in DOMAIN f.cfg.CustomClaims :
                   f.Token[1].claims[c] = f.cfg.CustomClaims[c]

\* C16 witness: a Grant with a custom claim has returned its APIAccess, whose
\* token has the custom claim and the subject.
C16_Witness ==
    LET f == frame[Issuer]
    IN  /\ f.pc = "done" /\ f.op = "Grant" /\ f.err = Nil
        /\ ~f.apiAccess.isNil
        /\ "role" \in DOMAIN f.apiAccess.Token[1].claims
        /\ Subject(f.apiAccess.Token) = Str("a")
        /\ Len(resp[Issuer].Cookies) = 1

\* the "exp" claim of the Issuer's token, in seconds
ExpClaim == frame[Issuer].Token[1].claims["exp"].n

\* C20 as claimed: the exp claim of every token is the time of issuance plus
\* cfg.ExpireAfter exactly, and later than the time of issuance, for every
\* lifetime; the cookie expires at that instant.
C20_ExpiresExactlyLifetimeLater ==
    LET f == frame[Issuer]
    IN  f.Token # <<>>
        => /\ ExpClaim * TicksPerSecond = Deadline
           /\ ExpClaim * TicksPerSecond > f.at
           /\ \A i \in 1..Len(resp[Issuer].Cookies) :
                 resp[Issuer].Cookies[i].Expires = Deadline

\* C20 as amended: the exp claim is the time of issuance plus cfg.ExpireAfter
\* cut to whole seconds: less than a second before that instant, later than
\* the second of issuance when the lifetime is a second or more, not later
\* when the lifetime is zero or negative; the cookie expires at the time of
\* issuance plus cfg.ExpireAfter exactly.
C20_ExpiresLifetimeLaterInSeconds ==
    LET f == frame[Issuer]
    IN  f.Token # <<>>
        => /\ ExpClaim * TicksPerSecond <= Deadline
           /\ Deadline < (ExpClaim + 1) * TicksPerSecond
           /\ f.cfg.ExpireAfter >= TicksPerSecond => ExpClaim > Unix(f.at)
           /\ f.cfg.ExpireAfter <= 0 => ExpClaim <= Unix(f.at)
           /\ \A i \in 1..Len(resp[Issuer].Cookies) :
                 resp[Issuer].Cookies[i].Expires = Deadline

\* C20 witness: a token was issued in a cookie with a negative lifetime, at a
\* time that is not a whole second.
C20_Witness ==
    LET f == frame[Issuer]
    IN  /\ f.Token # <<>>
        /\ f.cfg.ExpireAfter < 0
        /\ f.at % TicksPerSecond # 0
        /\ Len(resp[Issuer].Cookies) = 1
        /\ resp[Issuer].Cookies[1].Expires < f.at

\* C13: GateKeeper calls the wrapped handler exactly when the header token
\* passes IsGranted, or user.IsValid holds, or RemoteAddr without its port is
\* the bind address; otherwise it answers with the unauthorized status, does
\* not call the handler, and returns normally.
C13_GateAdmitsIff ==
    LET req == http.req
        admitted ==
            \/ IsGranted(req, HeaderStore, now) = "true"
            \/ req.session
            \/ (Len(req.RemoteAddr) >= 1 /\ <<req.RemoteAddr[1]>> = http.bind_addr)
    IN  http.res # NotServed
        => /\ http.res.handler = "next" <=> admitted
           /\ ~admitted => /\ http.res.status = StatusUnauthorized
                           /\ http.res.outcome = "normal"

====
